---------------------------- MODULE Spec2Model ----------------------------
(***************************************************************************)
(* SinusX polyline codec of CloudCompare (libs/qCC_io/SinusxFilter.cpp):   *)
(* the writer SinusxFilter::saveToFile and the line-driven reader          *)
(* SinusxFilter::loadFile.                                                 *)
(*                                                                         *)
(* Text is modelled at token level.  A line is a record                    *)
(*     [tokens : the whitespace-separated tokens of the line, in order,    *)
(*      rest   : the characters after the first three (read by 'CN' only)] *)
(* and the empty line is the line with no token and no character, which is *)
(* also what QTextStream::readLine returns at end of stream.  A token is   *)
(* either a word (its characters) or a number: a number keeps the '+' the  *)
(* writer may put in front of it, its value, and whether it is written in  *)
(* 'E' notation.  Coordinates are integers: the 13 significant digits the  *)
(* writer prints are more than a float holds, so printing and reparsing a  *)
(* well-formed number is exact, and the model keeps what can go wrong in   *)
(* the text, namely its sign characters and its notation.                  *)
(***************************************************************************)
EXTENDS Integers, Sequences, FiniteSets, TLC

\* ------------------------------------------------------------------ bounds
\* lines of a file read from disk that was not written by saveToFile
MaxLines == 5
\* candidate polylines handed to saveToFile in one call
MaxPolys == 3
\* magnitude from which a coordinate is 'big' for the global-shift policy;
\* scaled down, the test points below are placed relative to it
MaxCoordinateAbsValue == 3

\* ------------------------------------------------------- program constants
\* reserve(size + 10), line 400
ReserveChunk == 10
\* 'skip the next 16 values' of a circle block, line 326
CircleValues == 16

\* ----------------------------------------------------------------- vectors
Zero3 == <<0, 0, 0>>
VAdd(a, b) == [k \in 1..3 |-> a[k] + b[k]]
VSub(a, b) == [k \in 1..3 |-> a[k] - b[k]]
VNeg(a) == [k \in 1..3 |-> 0 - a[k]]
Abs(x) == IF x < 0 THEN 0 - x ELSE x

\* ------------------------------------------------------------------ tokens
\* a word token, w its characters
Word(w) == [w |-> w, plus |-> FALSE, n |-> 0, sci |-> FALSE]
\* an integer written by operator<<(int): digits with '-' when negative
IntTok(n) == [w |-> <<>>, plus |-> FALSE, n |-> n, sci |-> FALSE]
\* QString::number(v, 'E', 12) with an optional '+' written in front of it
SciTok(plus, v) == [w |-> <<>>, plus |-> plus, n |-> v, sci |-> TRUE]

IsNumber(t) == t.w = <<>>
\* QString::toDouble: one optional sign, then the number; "+-5" is refused
ToDoubleOk(t) == IsNumber(t) /\ ~(t.plus /\ t.n < 0)
\* QString::toInt: as toDouble, and no exponent or decimal point
ToIntOk(t) == ToDoubleOk(t) /\ ~t.sci
TokValue(t) == t.n

RECURSIVE LeadingDigit(_)
LeadingDigit(n) == IF n < 10 THEN n ELSE LeadingDigit(n \div 10)
DigitChar(d) == <<"0", "1", "2", "3", "4", "5", "6", "7", "8", "9">>[d + 1]
\* QString::at(0) of a token's text
FirstChar(t) ==
    IF ~IsNumber(t) THEN t.w[1]
    ELSE IF t.plus THEN "+"
    ELSE IF t.n < 0 THEN "-"
    ELSE DigitChar(LeadingDigit(t.n))
\* QString::length() of a token's text is above 1
LongerThanOne(t) ==
    IF ~IsNumber(t) THEN Len(t.w) > 1
    ELSE t.plus \/ t.n < 0 \/ t.n > 9 \/ t.sci

\* ------------------------------------------------------------------- lines
Line(tokens) == [tokens |-> tokens, rest |-> <<>>]
EmptyLine == Line(<<>>)
\* "CN " followed by the name: the tokens of a name line are never read
NameLine(name) == [tokens |-> <<Word(<<"C", "N">>)>>, rest |-> name]

IsEmptyLine(l) == l.tokens = <<>> /\ l.rest = <<>>
FirstWord(l) == IF l.tokens = <<>> THEN <<>> ELSE l.tokens[1].w
\* startsWith("C "): the word C and a space, so another token follows
StartsWithComment(l) == FirstWord(l) = <<"C">> /\ Len(l.tokens) >= 2
StartsWithB(l) == FirstWord(l) # <<>> /\ FirstWord(l)[1] = "B"
StartsWithCN(l) == Len(FirstWord(l)) >= 2 /\ SubSeq(FirstWord(l), 1, 2) = <<"C", "N">>
StartsWithCP(l) == Len(FirstWord(l)) >= 2 /\ SubSeq(FirstWord(l), 1, 2) = <<"C", "P">>

\* --------------------------------------------------------------- polylines
NoMeta == [has |-> FALSE, isInt |-> FALSE, v |-> 0]
IntMeta(v) == [has |-> TRUE, isInt |-> TRUE, v |-> v]
DefaultName == <<"P", "o", "l", "y">>

\* new ccPointCloud("vertices") and new ccPolyline(vertices), lines 236-239
NewPolyline ==
    [name |-> DefaultName, vertices |-> <<>>, closed |-> FALSE,
     visible |-> TRUE, verticesEnabled |-> FALSE, is2D |-> FALSE,
     upDir |-> NoMeta, constAltitude |-> NoMeta, globalShift |-> Zero3]

\* ccShiftedObject::toGlobal3d with unit scale
toGlobal3d(poly, P) == VSub(P, poly.globalShift)

\* ------------------------------------------------------------------ writer
MakeSinusxName(name) ==
    [i \in 1..Len(name) |-> IF name[i] = " " THEN "_" ELSE name[i]]

\* lines 115-122
SaveUpDir(poly) ==
    IF poly.is2D /\ poly.upDir.has
    THEN (IF poly.upDir.isInt THEN poly.upDir.v ELSE 2)
    ELSE 2

\* the codes of X and Y exchanged
BasePlaneCodeSwapped(upDir) == IF upDir = 2 THEN 0 ELSE (IF upDir = 1 THEN 1 ELSE 2)

\* line 128
BasePlaneCode(upDir) == IF upDir = 2 THEN 0 ELSE (IF upDir = 1 THEN 2 ELSE 1)

\* a '+' in front of every coordinate
PlusPrefixAlways(P, Pg, k) == TRUE

\* lines 138-139: the '+' is decided on the local coordinate
PlusPrefix(P, Pg, k) == P[k] >= 0

\* lines 132-142
VertexLine(poly, j) ==
    LET P == poly.vertices[j]
        Pg == toGlobal3d(poly, P)
    IN  Line([k \in 1..3 |-> SciTok(PlusPrefix(P, Pg, k), Pg[k])] \o <<Word(<<"A">>)>>)

\* a single vertex taken as enough
TooFewVerticesBelowOne(vertCount) == vertCount < 1

\* line 106
TooFewVertices(vertCount) == vertCount < 2

\* lines 125-143
BlockLines(poly) ==
    << Line(<<Word(<<"B">>), Word(<<"S">>)>>),
       NameLine(poly.name),
       Line(<<Word(<<"C", "P">>), IntTok(1), IntTok(IF poly.closed THEN 1 ELSE 0)>>),
       Line(<<Word(<<"C", "P">>), IntTok(BasePlaneCode(SaveUpDir(poly)))>>) >>
    \o [j \in 1..Len(poly.vertices) |-> VertexLine(poly, j)]

HeaderComment == Line(<<Word(<<"C">>), Word(<<"G">>)>>)


\* ------------------------------------------------------------------ reader
\* enum CurveType and SHORTCUT, lines 153-154
CurveTypes == {"S", "P", "N", "C"}

\* line 206: no tag, or a tag of more than one character
HeaderCorrupted(tokens) == Len(tokens) < 2 \/ LongerThanOne(tokens[2])

\* an unknown tag taken as a plain point set
HeaderCurveTypeLenient(tokens) ==
    LET curveTypeChar == FirstChar(tokens[2])
    IN  IF curveTypeChar \in CurveTypes THEN curveTypeChar ELSE "S"

\* lines 212-221
HeaderCurveType(tokens) ==
    LET curveTypeChar == FirstChar(tokens[2])
    IN  IF curveTypeChar \in CurveTypes THEN curveTypeChar ELSE "INVALID"

\* lines 189-192 and 437-440: the vertex cloud is there and not empty, and
\* resize and addPointIndex both succeed
BlockAttachable(poly, allocOk) == Len(poly.vertices) # 0 /\ allocOk

\* the outcome of one 'CP' line: the polyline, the stage, whether the line
\* was accepted, whether the circle skip starts
CPOutcome(poly, stage, ok, skip) ==
    [poly |-> poly, cpIndex |-> stage, ok |-> ok, skip |-> skip]

\* a malformed first 'CP' line that still advances the stage
CPStage0Advancing(poly, stage, tokens) ==
    LET ok == /\ Len(tokens) = 3
              /\ ToIntOk(tokens[2])
              /\ ToIntOk(tokens[3])
        isConnected == TokValue(tokens[2])
        isClosed == TokValue(tokens[3])
        shown == IF isConnected = 0
                 THEN [poly EXCEPT !.visible = FALSE, !.verticesEnabled = TRUE]
                 ELSE poly
    IN  IF ok
        THEN CPOutcome([shown EXCEPT !.closed = (isClosed # 0)], stage + 1, TRUE, FALSE)
        ELSE CPOutcome(poly, stage + 1, FALSE, FALSE)

\* lines 258-288: first 'CP' line, connected and closed flags
CPStage0(poly, stage, tokens) ==
    LET ok == /\ Len(tokens) = 3
              /\ ToIntOk(tokens[2])
              /\ ToIntOk(tokens[3])
        isConnected == TokValue(tokens[2])
        isClosed == TokValue(tokens[3])
        shown == IF isConnected = 0
                 THEN [poly EXCEPT !.visible = FALSE, !.verticesEnabled = TRUE]
                 ELSE poly
    IN  IF ok
        THEN CPOutcome([shown EXCEPT !.closed = (isClosed # 0)], stage + 1, TRUE, FALSE)
        ELSE CPOutcome(poly, stage, FALSE, FALSE)

\* lines 345-372: base plane, 0 = (XY), 1 = (YZ), 2 = (ZX)
CPStage2(poly, stage, tokens) ==
    LET basePlaneChar == FirstChar(tokens[2])
        ok == Len(tokens) = 2 /\ basePlaneChar \in {"0", "1", "2"}
        vertDir == IF basePlaneChar = "0" THEN 2
                   ELSE IF basePlaneChar = "1" THEN 0 ELSE 1
    IN  IF ok
        THEN CPOutcome([poly EXCEPT !.upDir = IntMeta(vertDir)], stage + 1, TRUE, FALSE)
        ELSE CPOutcome(poly, stage, FALSE, FALSE)

\* the second 'CP' line of a set only counted, as the one of a profile
CPStage1NoFallthrough(poly, stage, type, tokens) ==
    IF type = "S" THEN CPOutcome(poly, stage + 1, TRUE, FALSE)
    ELSE IF type = "P" THEN CPOutcome(poly, stage + 1, TRUE, FALSE)
    ELSE IF type = "N"
    THEN IF Len(tokens) = 2 /\ ToDoubleOk(tokens[2])
         THEN CPOutcome([poly EXCEPT !.constAltitude = IntMeta(TokValue(tokens[2]))],
                        stage + 1, TRUE, FALSE)
         ELSE CPOutcome(poly, stage, FALSE, FALSE)
    ELSE IF type = "C" THEN CPOutcome(poly, stage, TRUE, TRUE)
    ELSE CPOutcome(poly, stage + 1, TRUE, FALSE)

\* lines 290-343: second 'CP' line, by curve type
CPStage1(poly, stage, type, tokens) ==
    IF type = "S" THEN CPStage2(poly, stage + 1, tokens)
    ELSE IF type = "P" THEN CPOutcome(poly, stage + 1, TRUE, FALSE)
    ELSE IF type = "N"
    THEN IF Len(tokens) = 2 /\ ToDoubleOk(tokens[2])
         THEN CPOutcome([poly EXCEPT !.constAltitude = IntMeta(TokValue(tokens[2]))],
                        stage + 1, TRUE, FALSE)
         ELSE CPOutcome(poly, stage, FALSE, FALSE)
    ELSE IF type = "C" THEN CPOutcome(poly, stage, TRUE, TRUE)
    ELSE CPOutcome(poly, stage + 1, TRUE, FALSE)

\* lines 256-377: switch (cpIndex)
CPLine(poly, stage, type, tokens) ==
    IF stage = 0 THEN CPStage0(poly, stage, tokens)
    ELSE IF stage = 1 THEN CPStage1(poly, stage, type, tokens)
    ELSE IF stage = 2 THEN CPStage2(poly, stage, tokens)
    ELSE CPOutcome(poly, stage, TRUE, FALSE)

\* the key token left optional
VertexOkWithoutKey(tokens) ==
    /\ Len(tokens) >= 3
    /\ ToDoubleOk(tokens[1])
    /\ ToDoubleOk(tokens[2])
    /\ ToDoubleOk(tokens[3])

\* lines 384-396: exactly four tokens, the first three numeric
VertexOk(tokens) ==
    /\ Len(tokens) = 4
    /\ ToDoubleOk(tokens[1])
    /\ ToDoubleOk(tokens[2])
    /\ ToDoubleOk(tokens[3])
VertexCoords(tokens) == <<TokValue(tokens[1]), TokValue(tokens[2]), TokValue(tokens[3])>>

\* the test of the commented-out code of line 406: first vertex of the curve
IsFirstVertexOfCurve(first, size) == size = 0

\* line 406: the test made on every vertex; the flag spans the whole load
IsFirstVertex(first, size) == first

\* line 408: the first vertex of the load has been seen
FirstVertexAfter(first) == FALSE

\* FileIOFilter::HandleGlobalShift: a coordinate is too big for local
\* precision, and the translation that recenters the point
NeedShift(P) == \E k \in 1..3 : Abs(P[k]) >= MaxCoordinateAbsValue
HandleGlobalShift(Pd) == [applied |-> NeedShift(Pd), Pshift |-> VNeg(Pd)]

\* lines 411-412: the polyline at hand is given the shift
ShiftedPoly(poly, shift) == [poly EXCEPT !.globalShift = shift]

\* line 419
StoredPoint(Pd, shift) == VAdd(Pd, shift)

\* ------------------------------------------------------------------- state
VARIABLES
    pc,            \* "idle", "save" (writer loop), "load" (reader loop), "skip" (circle loop)
    ops,           \* the calls that have returned, in order
    profiles,      \* saveToFile: the polylines found in the entity
    i,             \* saveToFile: index of the profile at hand (from 1)
    outFile,       \* the text file written by saveToFile, line by line
    saveResult,    \* saveToFile: result
    stream,        \* loadFile: unread lines of a file written by saveToFile
    unread,        \* loadFile: unread lines of a file that comes from elsewhere
    currentLine, currentPoly, capacity, curveType, cpIndex,
    result, Pshift, firstVertex, skipped,
    container,     \* loadFile: the polylines attached to the output container
    warnings,      \* ccLog::Warning calls of the running loadFile
    shiftCalls,    \* HandleGlobalShift calls of the running loadFile
    created,       \* polylines created by the running loadFile
    deleted,       \* polylines deleted by the running loadFile
    badHeaders,    \* 'B' lines refused by the running loadFile
    appended,      \* vertices added by the running loadFile
    allocFailed,   \* an allocation has failed during the running loadFile
    assertFailed   \* an assert has failed and the build went on (NDEBUG)

writerVars == <<profiles, i, outFile, saveResult>>
readerVars == <<stream, unread, currentLine, currentPoly, capacity,
                curveType, cpIndex, result, Pshift, firstVertex, skipped,
                container, warnings, shiftCalls, created, deleted, badHeaders,
                appended, allocFailed, assertFailed>>
vars == <<pc, ops, writerVars, readerVars>>

\* ------------------------------------------------------------ test inputs
Far == MaxCoordinateAbsValue + 1
P0 == <<0, 0, 0>>
P1 == <<1, 0 - 1, 0>>
P2 == <<0 - 2, 0, 2>>
PFar == <<Far, 0 - Far, 1>>

VertexLists ==
    { <<>>, <<P1>>, <<P0, P1>>, <<P1, P2, P1>>, <<PFar, P1>>, <<P2, PFar>> }
Names == { <<>>, <<"a", " ", "b">> }
Shifts == { Zero3, <<2, 0 - 2, 0 - Far>> }
UpDirs == { NoMeta, IntMeta(0), IntMeta(1), IntMeta(2),
            [has |-> TRUE, isInt |-> FALSE, v |-> 0] }

Polylines ==
    { [NewPolyline EXCEPT !.name = nm, !.vertices = vs, !.closed = cl,
                          !.is2D = d2, !.upDir = up, !.globalShift = sh] :
        nm \in Names, vs \in VertexLists, cl \in BOOLEAN, d2 \in BOOLEAN,
        up \in UpDirs, sh \in Shifts }
BasicPolylines == { [NewPolyline EXCEPT !.vertices = vs] : vs \in VertexLists }

SeqsUpTo(S, n) == UNION { [1..m -> S] : m \in 0..n }
\* the entities saveToFile is called with: one polyline of any kind, or a
\* group of up to MaxPolys polylines that differ in their vertices
Entities == { <<p>> : p \in Polylines } \cup SeqsUpTo(BasicPolylines, MaxPolys)

\* -------------------------------------------------------------------- Init
ReaderReset ==
    /\ currentLine = Line(<<Word(<<"C">>)>>)
    /\ currentPoly = <<>>
    /\ capacity = 0
    /\ curveType = "INVALID"
    /\ cpIndex = 0
    /\ result = "NO_ERROR"
    /\ Pshift = Zero3
    /\ firstVertex = TRUE
    /\ skipped = 0
    /\ container = <<>>
    /\ warnings = 0
    /\ shiftCalls = 0
    /\ created = 0
    /\ deleted = 0
    /\ badHeaders = 0
    /\ appended = 0
    /\ allocFailed = FALSE
    /\ assertFailed = FALSE

Init ==
    /\ pc = "idle"
    /\ ops = <<>>
    /\ profiles = <<>>
    /\ i = 1
    /\ outFile = <<>>
    /\ saveResult = "NO_SAVE"
    /\ stream = <<>>
    /\ unread = 0
    /\ ReaderReset

\* ------------------------------------------------------------- saveToFile
\* lines 58-99: arguments, the polylines of the entity, the sink, the header.
\* The entity is what the caller holds: any of Entities before anything was
\* loaded, the loaded container after a load.
SaveOpen ==
    /\ pc = "idle"
    /\ ops \in { <<>>, <<"load">> }
    /\ \E entity \in (IF ops = <<>> THEN Entities ELSE {container}),
          validArgs \in BOOLEAN, fileOpens \in BOOLEAN :
         /\ profiles' = entity
         /\ i' = 1
         /\ IF ~validArgs
            THEN /\ saveResult' = "BAD_ARGUMENT"
                 /\ outFile' = <<>>
                 /\ pc' = "idle"
                 /\ ops' = Append(ops, "save")
            ELSE IF entity = <<>>
            THEN /\ saveResult' = "NO_SAVE"
                 /\ outFile' = <<>>
                 /\ pc' = "idle"
                 /\ ops' = Append(ops, "save")
            ELSE IF ~fileOpens
            THEN /\ saveResult' = "WRITING"
                 /\ outFile' = <<>>
                 /\ pc' = "idle"
                 /\ ops' = Append(ops, "save")
            ELSE /\ saveResult' = "NO_SAVE"
                 /\ outFile' = <<HeaderComment>>
                 /\ pc' = "save"
                 /\ ops' = ops
    /\ UNCHANGED readerVars

\* lines 102-146: one turn of the loop over the profiles
SaveProfile ==
    /\ pc = "save"
    /\ i <= Len(profiles)
    /\ LET poly == profiles[i]
           vertCount == Len(poly.vertices)
       IN  IF TooFewVertices(vertCount)
           THEN UNCHANGED <<outFile, saveResult>>
           ELSE /\ outFile' = outFile \o BlockLines(poly)
                /\ saveResult' = "NO_ERROR"
    /\ i' = i + 1
    /\ UNCHANGED <<pc, ops, profiles, readerVars>>

\* lines 148-150
SaveClose ==
    /\ pc = "save"
    /\ i > Len(profiles)
    /\ pc' = "idle"
    /\ ops' = Append(ops, "save")
    /\ UNCHANGED <<writerVars, readerVars>>

\* ---------------------------------------------------------------- loadFile
\* the lines a file that was not written by saveToFile is made of
CPWord == Word(<<"C", "P">>)
GoodVertexLine(P) == Line([k \in 1..3 |-> SciTok(P[k] >= 0, P[k])] \o <<Word(<<"A">>)>>)
Values(n) == [k \in 1..n |-> IntTok(0)]
ExternalLines ==
    { EmptyLine,
      Line(<<Word(<<"C">>), Word(<<"x">>)>>),
      Line(<<Word(<<"B">>), Word(<<"S">>)>>),
      Line(<<Word(<<"B">>), Word(<<"P">>)>>),
      Line(<<Word(<<"B">>), Word(<<"N">>)>>),
      Line(<<Word(<<"B">>), Word(<<"C">>)>>),
      Line(<<Word(<<"B">>), Word(<<"X">>)>>),
      Line(<<Word(<<"B">>)>>),
      Line(<<Word(<<"B">>), Word(<<"S", "S">>)>>),
      NameLine(<<"a", " ", "b">>),
      NameLine(<<>>),
      Line(<<CPWord, IntTok(1), IntTok(0)>>),
      Line(<<CPWord, IntTok(0), IntTok(1)>>),
      Line(<<CPWord, IntTok(0)>>),
      Line(<<CPWord, IntTok(1)>>),
      Line(<<CPWord, IntTok(2)>>),
      Line(<<CPWord, IntTok(7)>>),
      Line(<<CPWord, Word(<<"x">>), Word(<<"y">>)>>),
      Line(<<CPWord>> \o Values(CircleValues)),
      Line(<<CPWord>> \o Values(CircleValues - 4)),
      Line(Values(4)),
      GoodVertexLine(P1),
      GoodVertexLine(P2),
      GoodVertexLine(PFar),
      Line(<<SciTok(TRUE, 1), SciTok(FALSE, 0 - 1), SciTok(TRUE, 0)>>),
      Line(<<Word(<<"x">>), SciTok(TRUE, 0), SciTok(TRUE, 0), Word(<<"A">>)>>),
      Line(<<SciTok(TRUE, 0 - 1), SciTok(TRUE, 0), SciTok(TRUE, 0), Word(<<"A">>)>>) }

\* what stream.readLine() can return: the next line of the file, the empty
\* string once the file is exhausted.  The content of a file from elsewhere
\* is any sequence of ExternalLines; each line is fixed when it is read.
NextLines ==
    IF stream # <<>> THEN {Head(stream)}
    ELSE IF unread > 0 THEN ExternalLines
    ELSE {EmptyLine}
LinesLeft == Len(stream) + unread

\* line 176 (the line number of line 177 only feeds the warning texts)
ReadLine(l) ==
    /\ l \in NextLines
    /\ currentLine' = l
    /\ stream' = IF stream # <<>> THEN Tail(stream) ELSE stream
    /\ unread' = IF stream = <<>> /\ unread > 0 THEN unread - 1 ELSE unread

\* line 174: the loop goes on while the last line read is not empty
LoopGoesOn(l) == ~IsEmptyLine(l)

Warn == warnings' = warnings + 1 /\ result' = "MALFORMED_FILE"

\* lines 156-172
LoadOpen ==
    /\ pc = "idle"
    /\ \/ ops = <<>> /\ stream' = <<>> /\ unread' \in 0..MaxLines
       \/ ops = <<"save">> /\ outFile # <<>> /\ stream' = outFile /\ unread' = 0
    /\ currentLine' = Line(<<Word(<<"C">>)>>)
    /\ currentPoly' = <<>>
    /\ capacity' = 0
    /\ curveType' = "INVALID"
    /\ cpIndex' = 0
    /\ Pshift' = Zero3
    /\ firstVertex' = TRUE
    /\ skipped' = 0
    /\ container' = <<>>
    /\ warnings' = 0
    /\ shiftCalls' = 0
    /\ created' = 0
    /\ deleted' = 0
    /\ badHeaders' = 0
    /\ appended' = 0
    /\ allocFailed' = FALSE
    /\ assertFailed' = FALSE
    /\ \E fileOpens \in BOOLEAN :
         IF fileOpens
         THEN result' = "NO_ERROR" /\ pc' = "load" /\ ops' = ops
         ELSE result' = "READING" /\ pc' = "idle" /\ ops' = Append(ops, "load")
    /\ UNCHANGED writerVars

\* lines 179-183
ReadComment ==
    /\ pc = "load" /\ LoopGoesOn(currentLine)
    /\ \E l \in NextLines :
         /\ ReadLine(l)
         /\ StartsWithComment(l)
    /\ UNCHANGED <<pc, ops, writerVars, currentPoly, capacity, curveType, cpIndex,
                   result, Pshift, firstVertex, skipped, container, warnings,
                   shiftCalls, created, deleted, badHeaders, appended,
                   allocFailed, assertFailed>>

\* lines 184-241
ReadBlockHeader ==
    /\ pc = "load" /\ LoopGoesOn(currentLine)
    /\ \E l \in NextLines :
         /\ ReadLine(l)
         /\ ~StartsWithComment(l)
         /\ StartsWithB(l)
         \* lines 187-203: close the block at hand
         /\ IF currentPoly = <<>>
            THEN UNCHANGED <<container, deleted, allocFailed>>
            ELSE \E allocOk \in (IF Len(currentPoly[1].vertices) # 0 THEN BOOLEAN ELSE {TRUE}) :
                   /\ allocFailed' = (allocFailed \/ ~allocOk)
                   /\ IF BlockAttachable(currentPoly[1], allocOk)
                      THEN container' = Append(container, currentPoly[1])
                           /\ deleted' = deleted
                      ELSE container' = container
                           /\ deleted' = deleted + 1
         \* lines 204-240: the new header
         /\ IF HeaderCorrupted(l.tokens)
            THEN /\ Warn
                 /\ badHeaders' = badHeaders + 1
                 /\ currentPoly' = <<>>
                 /\ UNCHANGED <<curveType, cpIndex, capacity, created>>
            ELSE IF HeaderCurveType(l.tokens) = "INVALID"
            THEN /\ Warn
                 /\ badHeaders' = badHeaders + 1
                 /\ currentPoly' = <<>>
                 /\ curveType' = "INVALID"
                 /\ UNCHANGED <<cpIndex, capacity, created>>
            ELSE /\ curveType' = HeaderCurveType(l.tokens)
                 /\ currentPoly' = <<NewPolyline>>
                 /\ capacity' = 0
                 /\ cpIndex' = 0
                 /\ created' = created + 1
                 /\ UNCHANGED <<warnings, result, badHeaders>>
    /\ UNCHANGED <<pc, ops, writerVars, Pshift, firstVertex, skipped, shiftCalls,
                   appended, assertFailed>>

\* lines 244-251
ReadName ==
    /\ pc = "load" /\ LoopGoesOn(currentLine)
    /\ currentPoly # <<>>
    /\ \E l \in NextLines :
         /\ ReadLine(l)
         /\ ~StartsWithComment(l) /\ ~StartsWithB(l)
         /\ StartsWithCN(l)
         /\ currentPoly' = IF l.rest # <<>>
                           THEN <<[currentPoly[1] EXCEPT !.name = l.rest]>>
                           ELSE currentPoly
    /\ UNCHANGED <<pc, ops, writerVars, capacity, curveType, cpIndex,
                   result, Pshift, firstVertex, skipped, container, warnings,
                   shiftCalls, created, deleted, badHeaders, appended,
                   allocFailed, assertFailed>>

\* lines 252-378
ReadDescriptor ==
    /\ pc = "load" /\ LoopGoesOn(currentLine)
    /\ currentPoly # <<>>
    /\ \E l \in NextLines :
         /\ ReadLine(l)
         /\ ~StartsWithComment(l) /\ ~StartsWithB(l) /\ ~StartsWithCN(l)
         /\ StartsWithCP(l)
         /\ LET out == CPLine(currentPoly[1], cpIndex, curveType, l.tokens)
            IN  /\ currentPoly' = <<out.poly>>
                /\ cpIndex' = out.cpIndex
                /\ IF out.ok THEN UNCHANGED <<warnings, result>> ELSE Warn
                \* line 325: the circle skip starts with the values of this line
                /\ IF out.skip
                   THEN skipped' = Len(l.tokens) - 1 /\ pc' = "skip"
                   ELSE skipped' = skipped /\ pc' = pc
    /\ UNCHANGED <<ops, writerVars, capacity, curveType, Pshift, firstVertex,
                   container, shiftCalls, created, deleted, badHeaders, appended,
                   allocFailed, assertFailed>>

\* line 326: the condition of the skip loop
SkipGoesOn(n, l) == n < CircleValues /\ ~IsEmptyLine(l)

\* lines 326-332: one turn of the skip loop of a circle block
SkipRead ==
    /\ pc = "skip"
    /\ SkipGoesOn(skipped, currentLine)
    /\ \E l \in NextLines :
         /\ ReadLine(l)
         /\ skipped' = skipped + Len(l.tokens)
    /\ UNCHANGED <<pc, ops, writerVars, currentPoly, capacity, curveType, cpIndex,
                   result, Pshift, firstVertex, container, warnings,
                   shiftCalls, created, deleted, badHeaders, appended,
                   allocFailed, assertFailed>>

\* lines 333-335: assert(skipped == 16), then the stage advances.  A build
\* with assertions aborts on a failed assert, a build without goes on; which
\* build runs is settled at the first failed assert.
SkipDone ==
    /\ pc = "skip"
    /\ ~SkipGoesOn(skipped, currentLine)
    /\ IF skipped = CircleValues
       THEN pc' = "load" /\ cpIndex' = cpIndex + 1 /\ UNCHANGED assertFailed
       ELSE \/ ~assertFailed /\ pc' = "aborted" /\ UNCHANGED <<cpIndex, assertFailed>>
            \/ pc' = "load" /\ cpIndex' = cpIndex + 1 /\ assertFailed' = TRUE
    /\ UNCHANGED <<ops, writerVars, stream, unread, currentLine, currentPoly,
                   capacity, curveType, result, Pshift, firstVertex,
                   skipped, container, warnings, shiftCalls, created, deleted,
                   badHeaders, appended, allocFailed>>

\* the failed reserve taken as one more malformed line: the loop goes on
ReserveFailureReadsOn(cont, del) ==
    [container |-> cont, deleted |-> del + 1,
     result |-> "NOT_ENOUGH_MEMORY", returns |-> FALSE]

\* lines 399-404: reserve has failed, the polyline at hand is deleted and
\* loadFile returns; the container is not touched
ReserveFailure(cont, del) ==
    [container |-> cont, deleted |-> del + 1,
     result |-> "NOT_ENOUGH_MEMORY", returns |-> TRUE]

\* a vertex taken only once the header is complete
VertexBranchPastHeader(l, stage) == ~IsEmptyLine(l) /\ stage >= 3

\* line 379: the last branch of the loop takes every non-empty line, at
\* every header stage
VertexBranch(l, stage) == ~IsEmptyLine(l)

\* lines 379-430
ReadVertex ==
    /\ pc = "load" /\ LoopGoesOn(currentLine)
    /\ currentPoly # <<>>
    /\ \E l \in NextLines :
         /\ ReadLine(l)
         /\ ~StartsWithComment(l) /\ ~StartsWithB(l)
         /\ ~StartsWithCN(l) /\ ~StartsWithCP(l)
         /\ VertexBranch(l, cpIndex)
         /\ IF ~VertexOk(l.tokens)
            THEN /\ Warn
                 /\ UNCHANGED <<pc, ops, currentPoly, capacity, Pshift, firstVertex,
                                shiftCalls, deleted, appended, allocFailed,
                                container>>
            ELSE LET Pd == VertexCoords(l.tokens)
                     poly == currentPoly[1]
                     size == Len(poly.vertices)
                 IN  \E reserveOk \in (IF size = capacity THEN BOOLEAN ELSE {TRUE}) :
                       IF ~reserveOk
                       THEN LET failure == ReserveFailure(container, deleted)
                            IN  /\ currentPoly' = <<>>
                                /\ deleted' = failure.deleted
                                /\ container' = failure.container
                                /\ allocFailed' = TRUE
                                /\ result' = failure.result
                                /\ IF failure.returns
                                   THEN pc' = "idle" /\ ops' = Append(ops, "load")
                                   ELSE UNCHANGED <<pc, ops>>
                                /\ UNCHANGED <<capacity, Pshift, firstVertex,
                                               shiftCalls, appended, warnings>>
                       ELSE LET shift == HandleGlobalShift(Pd)
                                isFirst == IsFirstVertex(firstVertex, size)
                                moved == isFirst /\ shift.applied
                                newShift == IF moved THEN shift.Pshift ELSE Pshift
                                owner == IF moved THEN ShiftedPoly(poly, newShift) ELSE poly
                            IN  /\ capacity' = IF size = capacity
                                               THEN size + ReserveChunk ELSE capacity
                                /\ firstVertex' = IF isFirst
                                                  THEN FirstVertexAfter(firstVertex)
                                                  ELSE firstVertex
                                /\ shiftCalls' = IF isFirst THEN shiftCalls + 1
                                                 ELSE shiftCalls
                                /\ Pshift' = newShift
                                /\ currentPoly' =
                                     <<[owner EXCEPT !.vertices =
                                          Append(@, StoredPoint(Pd, newShift))]>>
                                /\ appended' = appended + 1
                                /\ UNCHANGED <<pc, ops, deleted, allocFailed, warnings,
                                               result, container>>
    /\ UNCHANGED <<writerVars, curveType, cpIndex, skipped, created,
                   badHeaders, assertFailed>>

\* a line that no branch of the loop takes: an empty line, or a line that
\* is neither a comment nor a header while no block is open
ReadNothing ==
    /\ pc = "load" /\ LoopGoesOn(currentLine)
    /\ \E l \in NextLines :
         /\ ReadLine(l)
         /\ ~StartsWithComment(l) /\ ~StartsWithB(l)
         /\ \/ currentPoly = <<>>
            \/ ~StartsWithCN(l) /\ ~StartsWithCP(l) /\ ~VertexBranch(l, cpIndex)
    /\ UNCHANGED <<pc, ops, writerVars, currentPoly, capacity, curveType, cpIndex,
                   result, Pshift, firstVertex, skipped, container, warnings,
                   shiftCalls, created, deleted, badHeaders, appended,
                   allocFailed, assertFailed>>

\* the locals of loadFile are gone once it has returned
LocalsGone ==
    /\ currentLine' = Line(<<Word(<<"C">>)>>)
    /\ currentPoly' = <<>>
    /\ capacity' = 0
    /\ curveType' = "INVALID"
    /\ cpIndex' = 0
    /\ firstVertex' = TRUE
    /\ skipped' = 0

\* lines 434-446: the loop has ended, the last polyline, the result
LoadFinish ==
    /\ pc = "load" /\ ~LoopGoesOn(currentLine)
    /\ IF currentPoly = <<>>
       THEN UNCHANGED <<container, allocFailed>>
       ELSE \E allocOk \in (IF Len(currentPoly[1].vertices) # 0 THEN BOOLEAN ELSE {TRUE}) :
              /\ allocFailed' = (allocFailed \/ ~allocOk)
              /\ container' = IF BlockAttachable(currentPoly[1], allocOk)
                              THEN Append(container, currentPoly[1])
                              ELSE container
    /\ pc' = "idle"
    /\ ops' = Append(ops, "load")
    /\ LocalsGone
    /\ UNCHANGED <<writerVars, stream, unread, result, Pshift, warnings,
                   shiftCalls, created, deleted, badHeaders, appended, assertFailed>>

Next ==
    \/ SaveOpen \/ SaveProfile \/ SaveClose
    \/ LoadOpen \/ ReadComment \/ ReadBlockHeader \/ ReadName \/ ReadDescriptor
    \/ SkipRead \/ SkipDone \/ ReadVertex \/ ReadNothing \/ LoadFinish

Spec == Init /\ [][Next]_vars

\* ------------------------------------------------------ reading the text
\* the properties below look at a written file the way a reader of the
\* format does: blocks start at a 'B' line, a vertex line is four tokens
IsBlockLine(l) == l.tokens # <<>> /\ l.tokens[1] = Word(<<"B">>)
IsVertexText(l) == Len(l.tokens) = 4 /\ l.tokens[4] = Word(<<"A">>)
TextValues(l) == <<l.tokens[1].n, l.tokens[2].n, l.tokens[3].n>>

\* the blocks of a text, each as the coordinate triples of its vertex lines
RECURSIVE Blocks(_)
Blocks(lines) ==
    IF lines = <<>> THEN <<>>
    ELSE LET before == Blocks(SubSeq(lines, 1, Len(lines) - 1))
             l == lines[Len(lines)]
         IN  IF IsBlockLine(l) THEN Append(before, <<>>)
             ELSE IF IsVertexText(l) /\ before # <<>>
             THEN [before EXCEPT ![Len(before)] = Append(@, TextValues(l))]
             ELSE before

\* the polylines of a list that have at least two vertices, in list order
Savable(polys) == SelectSeq(polys, LAMBDA q : Len(q.vertices) >= 2)
GlobalVertices(q) == [j \in 1..Len(q.vertices) |-> VSub(q.vertices[j], q.globalShift)]

LoadReturned == pc \in {"idle", "save"} /\ \E k \in DOMAIN ops : ops[k] = "load"
LoadRuns == pc \in {"load", "skip"}
\* the loop of loadFile has just read and handled currentLine'
LineHandled == pc = "load" /\ LoopGoesOn(currentLine)
SavedThenLoaded == pc = "idle" /\ ops = <<"save", "load">>
LoadedThenSaved == pc = "idle" /\ ops = <<"load", "save">>

\* ------------------------------------------------------------------ claims
\* the case of C1: one polyline with at least 2 vertices, no global shift,
\* 2D mode off, open, was saved and the file was loaded back
RoundTripCase ==
    /\ SavedThenLoaded
    /\ Len(profiles) = 1
    /\ Len(profiles[1].vertices) >= 2
    /\ profiles[1].globalShift = Zero3
    /\ ~profiles[1].is2D
    /\ ~profiles[1].closed
    /\ saveResult = "NO_ERROR"
    /\ result # "READING"
    /\ ~allocFailed

\* C1 as stated: saving such a polyline and loading the file back yields
\* exactly one polyline with the same vertices, in the same order with the
\* same stored coordinates, the same closed flag and up-axis Z.
C1_RoundTripStored ==
    RoundTripCase =>
        /\ Len(container) = 1
        /\ container[1].vertices = profiles[1].vertices
        /\ container[1].closed = profiles[1].closed
        /\ container[1].upDir = IntMeta(2)

\* C1 amended: the loaded polyline has the same vertices in the global frame
\* (stored coordinates minus its global shift), the same closed flag and
\* up-axis Z with base-plane code 0; its stored coordinates are the saved
\* ones when the first vertex does not trigger recentering.
C1_RoundTripGlobal ==
    RoundTripCase =>
        /\ Len(container) = 1
        /\ GlobalVertices(container[1]) = profiles[1].vertices
        /\ container[1].closed = profiles[1].closed
        /\ container[1].upDir = IntMeta(2)
        /\ BasePlaneCode(container[1].upDir.v) = 0
        /\ result = "NO_ERROR"
        /\ (~NeedShift(profiles[1].vertices[1])
              => container[1].vertices = profiles[1].vertices)

C1_Witness ==
    /\ RoundTripCase
    /\ Len(container) = 1
    /\ container[1].globalShift # Zero3
    /\ Len(container[1].vertices) = 2

\* C2 as stated: every polyline attached to the output container has at
\* least 2 vertices.
C2_AttachedHaveTwo ==
    \A k \in DOMAIN container : Len(container[k].vertices) >= 2

\* a 'B' line whose type tag is not one of S, P, N, C
KnownTags == { <<"S">>, <<"P">>, <<"N">>, <<"C">> }
BadTagHeader(l) ==
    /\ StartsWithB(l)
    /\ ~(Len(l.tokens) >= 2 /\ l.tokens[2].w \in KnownTags)
IsPrefix(a, b) == Len(a) <= Len(b) /\ SubSeq(b, 1, Len(a)) = a

\* what the step that handles such a header does; the load of C3's example
C3_BadTagStep ==
    (LineHandled /\ BadTagHeader(currentLine')) =>
        /\ warnings' = warnings + 1
        /\ badHeaders' = badHeaders + 1
        /\ result' = "MALFORMED_FILE"
        /\ currentPoly' = <<>>
        /\ created' = created
        /\ pc' = "load"
        /\ IsPrefix(container, container')
OneBlockOneBadHeader ==
    /\ LoadReturned
    /\ created = 1
    /\ appended >= 2
    /\ badHeaders = 1
    /\ warnings = 1
    /\ ~allocFailed
\* C3: a 'B' line with an unrecognized tag records a diagnostic, sets the
\* status to MalformedContent, opens no block and leaves the polylines
\* attached before it as they are; a load that read one block of at least
\* two vertices and one such header, and nothing else that is malformed,
\* returns exactly one polyline and MalformedContent.
C3_BadHeader ==
    /\ [][C3_BadTagStep]_vars
    /\ [](OneBlockOneBadHeader => Len(container) = 1 /\ result = "MALFORMED_FILE")

C3_Witness ==
    /\ OneBlockOneBadHeader
    /\ Len(container) = 1
    /\ Len(container[1].vertices) = 2
    /\ unread = 0
    /\ pc = "idle"

\* a line that is taken as a vertex record while a block is open
VertexRecord(l) ==
    /\ ~IsEmptyLine(l)
    /\ ~StartsWithComment(l) /\ ~StartsWithB(l)
    /\ ~StartsWithCN(l) /\ ~StartsWithCP(l)
\* exactly four fields, the first three of them numbers
FourFields(l) ==
    /\ Len(l.tokens) = 4
    /\ \A k \in 1..3 : l.tokens[k].w = <<>> /\ ~(l.tokens[k].plus /\ l.tokens[k].n < 0)

\* the step that handles a refused vertex line, and a well-formed one
C4_RejectStep ==
    (LineHandled /\ currentPoly # <<>> /\ VertexRecord(currentLine')
       /\ ~FourFields(currentLine')) =>
        /\ currentPoly' # <<>>
        /\ currentPoly'[1].vertices = currentPoly[1].vertices
        /\ result' = "MALFORMED_FILE"
        /\ warnings' = warnings + 1
        /\ cpIndex' = cpIndex
        /\ curveType' = curveType
        /\ pc' = "load"
C4_AppendStep ==
    (LineHandled /\ currentPoly # <<>> /\ VertexRecord(currentLine')
       /\ FourFields(currentLine')) =>
        \/ result' = "NOT_ENOUGH_MEMORY" /\ pc' = "idle"
        \/ /\ currentPoly' # <<>>
           /\ Len(currentPoly'[1].vertices) = Len(currentPoly[1].vertices) + 1
           /\ IsPrefix(currentPoly[1].vertices, currentPoly'[1].vertices)
           /\ result' = result
           /\ pc' = "load"
\* C4: while a block is open, a vertex line that has not exactly 4 fields or
\* has a non-numeric coordinate adds no vertex, makes the status
\* MalformedContent and leaves the block open at the same header stage; a
\* valid vertex line is appended to the open block, whatever was rejected
\* before it (unless the vertex storage cannot grow).
C4_BadVertexLine == [][C4_RejectStep /\ C4_AppendStep]_vars

\* a vertex line was just rejected in a block that holds vertices, and the
\* block is still open
C4_Witness ==
    /\ pc = "load"
    /\ currentPoly # <<>>
    /\ Len(currentPoly[1].vertices) >= 1
    /\ VertexRecord(currentLine) /\ Len(currentLine.tokens) = 3
    /\ result = "MALFORMED_FILE"
    /\ warnings = 1

\* what a step of loadFile may do to the shift and to the vertices
C5_ShiftStep ==
    LoadRuns =>
        /\ (shiftCalls' # shiftCalls =>
               shiftCalls = 0 /\ shiftCalls' = 1 /\ appended = 0 /\ appended' = 1)
        /\ (appended' # appended =>
               /\ appended' = appended + 1
               /\ currentPoly' # <<>>
               /\ currentPoly'[1].vertices =
                    Append(currentPoly[1].vertices,
                           VAdd(TextValues(currentLine'), Pshift'))
               /\ shiftCalls' = 1)
        /\ (Pshift' # Pshift => appended = 0 /\ appended' = 1)
\* C5: within one loadFile call HandleGlobalShift is called at most once, on
\* the first vertex that is stored, the shift never changes afterwards, and
\* every vertex is stored as its raw coordinates plus that shift.
C5_ShiftOnce == [](shiftCalls <= 1) /\ [][C5_ShiftStep]_vars

\* a second curve holds a vertex stored under the shift of the first one
C5_Witness ==
    /\ pc = "load"
    /\ Pshift # Zero3
    /\ shiftCalls = 1
    /\ Len(container) = 1
    /\ currentPoly # <<>>
    /\ Len(currentPoly[1].vertices) >= 1

\* C6 as stated: when the first vertex of a load triggered recentering,
\* saving the loaded polylines writes, for every vertex of every curve, the
\* absolute coordinates that were read (the stored ones minus the shift of
\* the load).  No allocation fails.
C6_ResaveAbsolute ==
    (LoadedThenSaved /\ saveResult = "NO_ERROR" /\ Pshift # Zero3 /\ ~allocFailed) =>
        Blocks(outFile) =
            [k \in 1..Len(Savable(container)) |->
                [j \in 1..Len(Savable(container)[k].vertices) |->
                    VSub(Savable(container)[k].vertices[j], Pshift)]]

\* C7 as stated: loadFile returns 'no error' only if no diagnostic was
\* recorded and a polyline was attached, and 'nothing to load' when no
\* polyline was attached.  No allocation fails.
C7_LoadStatus ==
    (LoadReturned /\ result \notin {"READING", "NOT_ENOUGH_MEMORY"} /\ ~allocFailed) =>
        /\ (result = "NO_ERROR" => warnings = 0 /\ Len(container) >= 1)
        /\ (Len(container) = 0 => result = "NO_LOAD")

\* saveToFile has returned after opening its sink on a non-empty list
SaveReturned ==
    /\ pc = "idle"
    /\ ops # <<>> /\ ops[Len(ops)] = "save"
    /\ profiles # <<>>
    /\ saveResult \notin {"BAD_ARGUMENT", "WRITING"}
\* C8: for a non-empty list of polylines and a sink that opens, saveToFile
\* writes one block for each polyline of at least 2 vertices, in list order,
\* and none for the others; it returns success iff there is such a polyline
\* and 'nothing to save' iff there is none.
C8_SavedBlocks ==
    SaveReturned =>
        /\ Blocks(outFile) =
             [k \in 1..Len(Savable(profiles)) |-> GlobalVertices(Savable(profiles)[k])]
        /\ (saveResult = "NO_ERROR" <=> Savable(profiles) # <<>>)
        /\ (saveResult = "NO_SAVE" <=> Savable(profiles) = <<>>)

\* a polyline with too few vertices was skipped between two that were saved
C8_Witness ==
    /\ SaveReturned
    /\ Len(profiles) = 3
    /\ Len(profiles[1].vertices) >= 2
    /\ Len(profiles[2].vertices) < 2
    /\ Len(profiles[3].vertices) >= 2
    /\ saveResult = "NO_ERROR"

\* C9 as stated: once a line has recorded a diagnostic the reader still
\* handles every remaining line of the stream, and the status it returns is
\* MalformedContent (allocation failure apart).
C9_ReadsOn ==
    (LoadReturned /\ warnings > 0 /\ result # "NOT_ENOUGH_MEMORY") =>
        /\ LinesLeft = 0
        /\ result = "MALFORMED_FILE"

\* the step taken after a blank line that is not the last line
C10_BlankStep ==
    (pc = "load" /\ IsEmptyLine(currentLine) /\ LinesLeft > 0) =>
        /\ pc' = "load"
        /\ UNCHANGED <<currentPoly, cpIndex, curveType, result, warnings, container>>
\* C10 as stated: a blank line changes no reader state and the reader goes
\* on with the lines that follow it.
C10_BlankIgnored == [][C10_BlankStep]_vars

\* the step that ends the skip of a circle's values when the stream (or a
\* blank line) ended it before 16 values were counted
C11_ShortSkipStep ==
    (pc = "skip" /\ IsEmptyLine(currentLine) /\ skipped < CircleValues) =>
        /\ pc' = "load"
        /\ cpIndex' = 2
        /\ UNCHANGED assertFailed
\* C11 as stated: when the values of a Circle block end with the stream
\* before 16 of them were read, the skip ends without a failed assertion and
\* the header stage advances to 2.
C11_ShortSkip == [][C11_ShortSkipStep]_vars

\* the names written on the 'CN' lines of a text
NamesWritten(lines) ==
    LET cn == SelectSeq(lines, StartsWithCN)
    IN  [k \in DOMAIN cn |-> cn[k].rest]
\* C12 as stated: the 'CN' line of every block that saveToFile writes holds
\* the name of its polyline with every space replaced by an underscore.
C12_NameWithoutSpace ==
    SaveReturned =>
        NamesWritten(outFile) =
            [k \in 1..Len(Savable(profiles)) |-> MakeSinusxName(Savable(profiles)[k].name)]

\* the coordinate fields of the vertex lines of a text
NumbersWritten(lines) ==
    { l.tokens[k] : l \in { lines[j] : j \in { x \in DOMAIN lines : IsVertexText(lines[x]) } },
                    k \in 1..3 }
\* C13 as stated: every coordinate that saveToFile writes starts with '+'
\* exactly when the number written, the global coordinate, is not negative,
\* whatever the global shift of the polyline.
C13_SignOfWritten ==
    \A t \in NumbersWritten(outFile) : t.plus <=> t.n >= 0

\* the step that handles a well-formed vertex line when the vertex storage
\* is full, and the step that makes the status 'not enough memory'
C14_FullStorageStep ==
    (LineHandled /\ currentPoly # <<>> /\ VertexRecord(currentLine')
       /\ FourFields(currentLine')
       /\ Len(currentPoly[1].vertices) = capacity /\ appended' = appended) =>
        result' = "NOT_ENOUGH_MEMORY"
C14_FailureStep ==
    (result' = "NOT_ENOUGH_MEMORY" /\ result # "NOT_ENOUGH_MEMORY") =>
        /\ LineHandled /\ currentPoly # <<>>
        /\ VertexRecord(currentLine') /\ FourFields(currentLine')
        /\ Len(currentPoly[1].vertices) = capacity
        /\ pc' = "idle" /\ ops' = Append(ops, "load")
        /\ currentPoly' = <<>>
        /\ deleted' = deleted + 1
        /\ appended' = appended
        /\ container' = container
\* C14: when the vertex storage cannot grow for a vertex that is being
\* appended, loadFile returns 'not enough memory' at once, the polyline at
\* hand is deleted and not attached, and the polylines attached before stay
\* in the container as they are.
C14_OutOfMemory == [][C14_FullStorageStep /\ C14_FailureStep]_vars

\* loadFile has returned 'not enough memory' with a polyline attached before
C14_Witness ==
    /\ LoadReturned /\ pc = "idle" /\ ops[Len(ops)] = "load"
    /\ result = "NOT_ENOUGH_MEMORY"
    /\ Len(container) >= 1
    /\ created = Len(container) + 1
    /\ deleted = 1

\* one 2D polyline with an up axis of 0, 1 or 2 was saved, and the file was
\* loaded back: what was attached has the same up axis
C15_WriteThenRead ==
    (/\ SavedThenLoaded
     /\ Len(profiles) = 1
     /\ profiles[1].is2D
     /\ profiles[1].upDir \in { IntMeta(u) : u \in 0..2 }
     /\ saveResult = "NO_ERROR") =>
        \A k \in DOMAIN container : container[k].upDir = profiles[1].upDir
\* the step that reads a base-plane code: the polyline it gives, once in 2D
\* mode, is written with the code that was read
C15_ReadThenWriteStep ==
    (/\ LineHandled /\ currentPoly # <<>> /\ StartsWithCP(currentLine')
     /\ currentPoly' # <<>>
     /\ currentPoly'[1].upDir # currentPoly[1].upDir) =>
        LET as2D == [currentPoly'[1] EXCEPT !.is2D = TRUE]
            written == BlockLines(as2D)[4]
        IN  /\ Len(currentLine'.tokens) = 2
            /\ FirstChar(currentLine'.tokens[2]) \in {"0", "1", "2"}
            /\ FirstChar(written.tokens[2]) = FirstChar(currentLine'.tokens[2])
\* no polyline in 2D mode was saved: every base-plane line holds code 0
C15_FlatCodeZero ==
    (SaveReturned /\ \A k \in DOMAIN profiles : ~profiles[k].is2D) =>
        \A j \in DOMAIN outFile :
            (StartsWithCP(outFile[j]) /\ Len(outFile[j].tokens) = 2) =>
                outFile[j].tokens[2] = IntTok(0)
\* C15: the base-plane code of the writer (up axis 2 -> 0, 1 -> 2, 0 -> 1)
\* and its reading (0 -> 2, 1 -> 0, 2 -> 1) are inverse of each other: a 2D
\* polyline with up axis 0, 1 or 2 that is written and read back has the
\* same up axis, a code 0, 1 or 2 that is read gives an up axis which a 2D
\* polyline is written with as the same code, and a polyline that is not in
\* 2D mode is always written with code 0.
C15_BasePlaneInverse ==
    [](C15_WriteThenRead /\ C15_FlatCodeZero) /\ [][C15_ReadThenWriteStep]_vars

\* a 2D polyline with up axis Y was written and read back as one polyline
C15_Witness ==
    /\ SavedThenLoaded
    /\ Len(profiles) = 1
    /\ profiles[1].is2D
    /\ profiles[1].upDir = IntMeta(1)
    /\ Len(container) = 1
    /\ container[1].upDir = IntMeta(1)

\* a 'CP' line that is malformed as the first one of a block: not two
\* integers after the marker
BadFirstCP(l) ==
    /\ StartsWithCP(l)
    /\ \/ Len(l.tokens) # 3
       \/ \E k \in 2..3 : l.tokens[k].w # <<>> \/ l.tokens[k].sci
                          \/ (l.tokens[k].plus /\ l.tokens[k].n < 0)
\* the step that handles such a line at stage 0: its diagnostic, its status
\* and what it leaves alone
C16_BadFirstStep ==
    (LineHandled /\ currentPoly # <<>> /\ cpIndex = 0 /\ BadFirstCP(currentLine')) =>
        /\ warnings' = warnings + 1
        /\ result' = "MALFORMED_FILE"
        /\ currentPoly' = currentPoly
        /\ pc' = "load"
\* C16 as stated: a malformed first 'CP' line records a diagnostic, sets the
\* status to MalformedContent, extracts nothing, and the header stage still
\* advances to 1.
C16_StageAdvances ==
    [][C16_BadFirstStep /\
       ((LineHandled /\ currentPoly # <<>> /\ cpIndex = 0 /\ BadFirstCP(currentLine'))
           => cpIndex' = 1)]_vars
\* C16 amended: a malformed first 'CP' line records a diagnostic, sets the
\* status to MalformedContent and extracts nothing, and the header stage
\* stays 0, so that the next 'CP' line is handled as a first one again.
C16_StageStays ==
    [][C16_BadFirstStep /\
       ((LineHandled /\ currentPoly # <<>> /\ cpIndex = 0 /\ BadFirstCP(currentLine'))
           => cpIndex' = 0)]_vars

\* a first 'CP' line was just refused and the block is still at stage 0
C16_Witness ==
    /\ pc = "load"
    /\ currentPoly # <<>>
    /\ cpIndex = 0
    /\ BadFirstCP(currentLine)
    /\ warnings = 1
    /\ result = "MALFORMED_FILE"

\* a 'CP' line of an open block is handled without a diagnostic
GoodCPStep ==
    /\ LineHandled /\ currentPoly # <<>> /\ StartsWithCP(currentLine')
    /\ warnings' = warnings
\* the stage after each well-formed 'CP' line of a Set and of a Profile
C17_SetStep ==
    (GoodCPStep /\ curveType = "S") =>
        /\ cpIndex = 0 => cpIndex' = 1
        /\ cpIndex = 1 => /\ cpIndex' = 3
                          /\ Len(currentLine'.tokens) = 2
                          /\ currentPoly'[1].upDir.has
        /\ cpIndex = 3 => cpIndex' = 3
C17_ProfileStep ==
    (GoodCPStep /\ curveType = "P") =>
        /\ cpIndex = 0 => cpIndex' = 1
        /\ cpIndex = 1 => cpIndex' = 2 /\ currentPoly' = currentPoly
        /\ cpIndex = 2 => /\ cpIndex' = 3
                          /\ Len(currentLine'.tokens) = 2
                          /\ currentPoly'[1].upDir.has
        /\ cpIndex = 3 => cpIndex' = 3
\* C17: with well-formed headers a Set block reaches stage 3 after exactly 2
\* 'CP' lines, the second of them being its base-plane descriptor, and a
\* Profile block after exactly 3.
C17_LinesToStage3 ==
    /\ []((LoadRuns /\ curveType = "S" /\ warnings = 0) => cpIndex \in {0, 1, 3})
    /\ [][C17_SetStep /\ C17_ProfileStep]_vars

\* a Profile block has read its third 'CP' line and is at stage 3
C17_Witness ==
    /\ pc = "load"
    /\ currentPoly # <<>>
    /\ curveType = "P"
    /\ warnings = 0
    /\ StartsWithCP(currentLine)
    /\ cpIndex = 3
    /\ currentPoly[1].upDir.has

\* C18 as stated: a vertex is appended to the open block only when its
\* header stage is past 2, never at stage 0, 1 or 2.
C18_VertexPastHeader ==
    [][(/\ LoadRuns /\ currentPoly # <<>> /\ currentPoly' # <<>>
        /\ Len(currentPoly'[1].vertices) > Len(currentPoly[1].vertices)) =>
           cpIndex >= 3]_vars
\* the step that handles a well-formed vertex line before the header of the
\* block is complete
C18_EarlyVertexStep ==
    (/\ LineHandled /\ currentPoly # <<>> /\ cpIndex < 3
     /\ VertexRecord(currentLine') /\ FourFields(currentLine')) =>
        \/ result' = "NOT_ENOUGH_MEMORY"
        \/ /\ currentPoly' # <<>>
           /\ currentPoly'[1].vertices =
                Append(currentPoly[1].vertices,
                       StoredPoint(TextValues(currentLine'), Pshift'))
           /\ cpIndex' = cpIndex
           /\ warnings' = warnings
\* C18 amended: while a block is open, a well-formed vertex line is appended
\* to it at every header stage, 0, 1 and 2 included (unless the vertex
\* storage cannot grow); the stage is left as it is and no diagnostic is
\* recorded.
C18_VertexAtAnyStage == [][C18_EarlyVertexStep]_vars

\* a block that has read no 'CP' line holds a vertex
C18_Witness ==
    /\ pc = "load"
    /\ currentPoly # <<>>
    /\ cpIndex = 0
    /\ warnings = 0
    /\ VertexRecord(currentLine) /\ FourFields(currentLine)
    /\ Len(currentPoly[1].vertices) = 1

\* a line is read by the step: by the loop of loadFile, or by the skip loop
\* of a circle block
LineRead == LineHandled \/ (pc = "skip" /\ SkipGoesOn(skipped, currentLine))
\* the step that reads a 'B' line: the open block is closed, and the line
\* opens a block iff its tag is recognized
C19_HeaderStep ==
    (LoadRuns /\ LineRead /\ StartsWithB(currentLine')
       /\ ~StartsWithComment(currentLine')) =>
        /\ pc' = "load"
        /\ Len(container') + deleted' =
             Len(container) + deleted + (IF currentPoly = <<>> THEN 0 ELSE 1)
        /\ IF BadTagHeader(currentLine')
           THEN /\ currentPoly' = <<>>
                /\ created' = created
                /\ badHeaders' = badHeaders + 1
           ELSE /\ currentPoly' # <<>>
                /\ currentPoly'[1].vertices = <<>>
                /\ cpIndex' = 0
                /\ created' = created + 1
                /\ badHeaders' = badHeaders
\* C19 as stated: a line that starts with 'B' closes the open block and is
\* parsed as a header in every state of the reader, also while the values of
\* a Circle block are skipped and fewer than 16 of them were read, so that
\* one block is opened for each 'B' line with a recognized tag.
C19_HeaderInEveryState == [][C19_HeaderStep]_vars

\* C20 as stated: when loadFile has returned, every polyline it created is
\* either attached to the container or deleted, the one that was open at the
\* end of the stream included.
C20_AttachedOrDeleted ==
    (LoadReturned /\ pc = "idle" /\ ops[Len(ops)] = "load") =>
        created = Len(container) + deleted

=============================================================================
